---- MODULE Spec2Model ----
(***************************************************************************)
(* The git and hg fetch/sync engines of vendir (pkg/vendir/fetch/git and   *)
(* pkg/vendir/fetch/hg) as one state machine.  A sync is a sequence of     *)
(* steps; every external command, file write, temp-dir creation and cache  *)
(* call is one step that either succeeds or fails.  The remote repository, *)
(* the cache root and the destination directory persist between syncs.     *)
(***************************************************************************)
EXTENDS Integers, Sequences, FiniteSets, TLC

\* The changesets that exist: the initial changeset and the extra changeset.
MaxRev == 2
\* Number of Sync calls in one behaviour.
MaxSyncs == 2

Revs == 1..MaxRev

\* Optional values (Go pointers, "" results): {} is nil, {v} is a value.
None == {}
Some(v) == {v}
The(s) == CHOOSE v \in s : TRUE

Max(S) == CHOOSE x \in S : \A y \in S : y <= x
\* The head of the default branch of a repository holding the revisions S.
Tip(S) == IF S = {} THEN 0 ELSE Max(S)

\* strings.HasPrefix on strings modelled as sequences of tokens.
HasPrefix(s, p) == Len(p) <= Len(s) /\ SubSeq(s, 1, Len(p)) = p

(***************************************************************************)
(* Revisions.  A revision has a full node id (40 hex digits in hg and git, *)
(* three tokens here), a short id (the 12 digits `hg id --id` prints, two  *)
(* tokens here), and a commit message.                                     *)
(***************************************************************************)
Node(r) == <<ToString(r), "b", "c">>
ShortID(r) == SubSeq(Node(r), 1, 2)
Abbrev(r) == SubSeq(Node(r), 1, 1)

\* Revision 1 has a one-line message, every other revision a multi-line one.
Message(r) == IF r = 1 THEN <<"Added file1">>
              ELSE <<"Fix bug", "\n", "\n", "Details here">>

RECURSIVE TrimLeft(_)
TrimLeft(s) == IF s # <<>> /\ Head(s) \in {"\n", " "} THEN TrimLeft(Tail(s)) ELSE s
RECURSIVE TrimRight(_)
TrimRight(s) == IF s # <<>> /\ s[Len(s)] \in {"\n", " "}
                THEN TrimRight(SubSeq(s, 1, Len(s) - 1)) ELSE s
\* strings.TrimSpace
TrimSpace(s) == TrimRight(TrimLeft(s))

RECURSIVE FirstLine(_)
FirstLine(s) == IF s = <<>> \/ Head(s) = "\n" THEN <<>>
                ELSE <<Head(s)>> \o FirstLine(Tail(s))

\* pieces := strings.SplitN(in, "\n", 2); more than one piece: pieces[0] + "..."
singleLineCommitTitle(in) ==
    IF \E i \in 1..Len(in) : in[i] = "\n" THEN FirstLine(in) \o <<"...">>
    ELSE in

singleLineChangeSetTitle(in) ==
    IF \E i \in 1..Len(in) : in[i] = "\n" THEN FirstLine(in) \o <<"...">>
    ELSE in

(***************************************************************************)
(* Source descriptors.  A URL is <<scheme, host, path>>, "" is <<>>.       *)
(* The two URLs are two access paths to the same remote repository.        *)
(***************************************************************************)
HttpsURL == <<"https://", "host", "/repo">>
SshURL == <<"ssh://", "host", "/repo">>
URLs == {HttpsURL, SshURL}
EmptyURL == <<>>

\* Secrets the RefFetcher can return, by secret name: field name -> value.
SecretData(name) ==
    CASE name = "basic" -> ("username" :> <<"user">>) @@ ("password" :> <<"pw">>)
      [] name = "ssh" -> ("ssh-privatekey" :> <<"key">>) @@ ("ssh-knownhosts" :> <<"hosts">>)
      [] name = "sshnl" -> ("ssh-privatekey" :> <<"key", "\n">>)
      [] OTHER -> ("username" :> <<"user">>) @@ ("token" :> <<"tok">>)

GitDefaults == [backend |-> "git", URL |-> HttpsURL, Ref |-> <<"origin/", "main">>,
                RefSelection |-> None, SecretRef |-> None, Verification |-> FALSE,
                Depth |-> 0, ForceHTTPBasicAuth |-> FALSE, SkipInitSubmodules |-> FALSE,
                SparseCheckout |-> FALSE, Evolve |-> FALSE]

HgDefaults == [backend |-> "hg", URL |-> HttpsURL, Ref |-> <<"default">>,
               RefSelection |-> None, SecretRef |-> None, Verification |-> FALSE,
               Depth |-> 0, ForceHTTPBasicAuth |-> FALSE, SkipInitSubmodules |-> FALSE,
               SparseCheckout |-> FALSE, Evolve |-> FALSE]

With(d, f, v) == [d EXCEPT ![f] = v]

\* Every descriptor shape of the model (DirectoryContentsGit / DirectoryContentsHg).
Descriptors ==
    [backend : {"git", "hg"}, URL : URLs \cup {EmptyURL},
     Ref : {<<>>, <<"origin/", "main">>, <<"main">>, <<"default">>}
             \cup {Node(r) : r \in Revs} \cup {ShortID(r) : r \in Revs}
             \cup {Abbrev(r) : r \in Revs},
     RefSelection : {None, Some("*")},
     SecretRef : {None, Some("basic"), Some("ssh"), Some("sshnl"), Some("bad")},
     Verification : BOOLEAN, Depth : {0, 1}, ForceHTTPBasicAuth : BOOLEAN,
     SkipInitSubmodules : BOOLEAN, SparseCheckout : BOOLEAN, Evolve : BOOLEAN]

\* The descriptors the syncs of a behaviour are drawn from.
GitSources ==
    {With(GitDefaults, "Ref", Node(r)) : r \in Revs}
    \cup {GitDefaults,
          With(With(GitDefaults, "Verification", TRUE), "RefSelection", Some("*")),
          With(With(With(With(With(GitDefaults, "Ref", <<>>), "RefSelection", Some("*")),
                         "Depth", 1), "SparseCheckout", TRUE), "SkipInitSubmodules", TRUE),
          With(GitDefaults, "SecretRef", Some("basic")),
          With(With(GitDefaults, "SecretRef", Some("basic")), "ForceHTTPBasicAuth", TRUE),
          With(With(GitDefaults, "SecretRef", Some("ssh")), "URL", SshURL),
          With(With(GitDefaults, "SecretRef", Some("basic")), "URL", SshURL),
          With(GitDefaults, "SecretRef", Some("bad")),
          With(GitDefaults, "URL", EmptyURL),
          With(GitDefaults, "Ref", <<>>)}

HgSources ==
    {With(HgDefaults, "Ref", ref) :
        ref \in {ShortID(1), Abbrev(1), ShortID(MaxRev)}}
    \cup {HgDefaults,
          With(With(With(HgDefaults, "Ref", Node(1)), "SecretRef", Some("basic")),
               "Evolve", TRUE),
          With(With(HgDefaults, "SecretRef", Some("basic")), "URL", SshURL),
          With(With(HgDefaults, "SecretRef", Some("ssh")), "URL", SshURL),
          With(HgDefaults, "SecretRef", Some("bad")),
          With(HgDefaults, "URL", EmptyURL)}

Sources == GitSources \cup HgSources

(***************************************************************************)
(* Directories.  A directory is a record: wt is the revision whose tree is *)
(* checked out (0: none), store the revisions held by the repository       *)
(* metadata, refs the revisions some ref or tag points at, config the      *)
(* configuration entries written into it, pre marks the content that was   *)
(* at the destination before the first sync, damaged a directory a failed  *)
(* os.RemoveAll has partly removed.  A path holds None or Some(directory). *)
(***************************************************************************)
EmptyDir == [wt |-> 0, store |-> {}, refs |-> {}, config |-> {},
             pre |-> FALSE, damaged |-> FALSE]
PreExisting == [EmptyDir EXCEPT !.pre = TRUE]

NoLock == [SHA |-> <<>>, Tags |-> <<>>, Title |-> <<>>]
NoAuth == [PrivateKey |-> None, KnownHosts |-> None, Username |-> None,
           Password |-> None, err |-> <<>>]
NoInfo == [SHA |-> <<>>, Tags |-> <<>>, Title |-> <<>>]

VARIABLES
    remote,     \* revisions the remote repository holds
    cache,      \* the cache root: a set of entries [type, id, dir]
    dst,        \* dstPath: None or Some(directory)
    nsync,      \* number of Sync calls started
    opts,       \* Sync.opts of the running (or last) sync
    cacheImpl,  \* Sync.cache: "NoCache" or "Cache"
    pc,         \* position of the sync
    incoming,   \* incomingTmpPath
    authDir,    \* the auth temp dir: None or Some(set of files [name, data])
    bundleDir,  \* git: the bundleCache temp dir
    cmds,       \* commands run by this sync, in order: [args, dir]
    lock,       \* the lock conf Sync returns
    err,        \* the error Sync returns, <<>> is nil
    cacheID,    \* the cache id of this sync
    bundle,     \* git: the bundle path handed to Retrieve, <<>> is ""
    authOpts,   \* result of getAuthOpts
    argss,      \* git: commands RunMultiple still has to run
    ref,        \* git: the resolved ref
    info,       \* GitInfo / hgInfo
    cachePath,  \* hg: Some(id) when cache.Has reported an entry
    verified,   \* git: the calls of Verify made by this sync, [ref, ok]
    dstBefore,  \* history: dst when this sync was called
    cacheBefore,\* history: cache when this sync was called
    faulted     \* history: a step of this sync failed for an outside reason

vars == <<remote, cache, dst, nsync, opts, cacheImpl, pc, incoming, authDir,
          bundleDir, cmds, lock, err, cacheID, bundle, authOpts, argss, ref,
          info, cachePath, verified, dstBefore, cacheBefore, faulted>>

world == <<remote, nsync, opts, cacheImpl, dstBefore, cacheBefore>>

(***************************************************************************)
(* The cache (ctlcache.Cache) and its no-op implementation.                *)
(***************************************************************************)
Sum256(bytes) == <<"sha256">> \o bytes
Hex(digest) == <<"hex">> \o digest

CacheHas(impl, c, type, id) ==
    impl = "Cache" /\ \E e \in c : e.type = type /\ e.id = id

CacheEntry(c, type, id) == (CHOOSE e \in c : e.type = type /\ e.id = id).dir

CacheSave(impl, c, type, id, dir) ==
    IF impl = "NoCache" THEN c
    ELSE {e \in c : ~(e.type = type /\ e.id = id)}
         \cup {[type |-> type, id |-> id, dir |-> dir]}

gitCacheType == "git-bundle"

\* GitCacheID with a fault: the ref is hashed into the id as well.
GitCacheID_WithRef(o) == Hex(Sum256(o.URL \o o.Ref))

\* cacheID := fmt.Sprintf("%x", sha256.Sum256([]byte(d.opts.URL)))
GitCacheID(o) == Hex(Sum256(o.URL))

(***************************************************************************)
(* Credential staging, shared shape of Git.getAuthOpts and hg.getAuthOpts. *)
(***************************************************************************)
Orders(S) == {s \in [1..Cardinality(S) -> S] : \A i, j \in 1..Cardinality(S) :
                                                   s[i] = s[j] => i = j}

\* authLoop with a fault: a field that is not recognized is skipped.
RECURSIVE authLoop_IgnoresUnknown(_, _, _, _)
authLoop_IgnoresUnknown(order, data, secretName, acc) ==
    IF order = <<>> THEN acc
    ELSE LET name == Head(order)
             val == data[name]
             rest == Tail(order)
         IN CASE name = "ssh-privatekey" ->
                   authLoop_IgnoresUnknown(rest, data, secretName,
                                           [acc EXCEPT !.PrivateKey = Some(val)])
              [] name = "ssh-knownhosts" ->
                   authLoop_IgnoresUnknown(rest, data, secretName,
                                           [acc EXCEPT !.KnownHosts = Some(val)])
              [] name = "username" ->
                   authLoop_IgnoresUnknown(rest, data, secretName,
                                           [acc EXCEPT !.Username = Some(val)])
              [] name = "password" ->
                   authLoop_IgnoresUnknown(rest, data, secretName,
                                           [acc EXCEPT !.Password = Some(val)])
              [] OTHER ->
                   authLoop_IgnoresUnknown(rest, data, secretName, acc)

\* for name, val := range secret.Data { switch name { ... } }
RECURSIVE authLoop(_, _, _, _)
authLoop(order, data, secretName, acc) ==
    IF order = <<>> THEN acc
    ELSE LET name == Head(order)
             val == data[name]
             rest == Tail(order)
         IN CASE name = "ssh-privatekey" ->
                   authLoop(rest, data, secretName, [acc EXCEPT !.PrivateKey = Some(val)])
              [] name = "ssh-knownhosts" ->
                   authLoop(rest, data, secretName, [acc EXCEPT !.KnownHosts = Some(val)])
              [] name = "username" ->
                   authLoop(rest, data, secretName, [acc EXCEPT !.Username = Some(val)])
              [] name = "password" ->
                   authLoop(rest, data, secretName, [acc EXCEPT !.Password = Some(val)])
              [] OTHER ->
                   [acc EXCEPT !.err = <<"Unknown secret field", name, "in secret", secretName>>]

IsPresent(o) == o.PrivateKey # None \/ o.KnownHosts # None
                \/ o.Username # None \/ o.Password # None

File(name, data) == [name |-> name, data |-> data]

Base64(bytes) == <<"base64">> \o bytes

(***************************************************************************)
(* The git command list built by Git.fetch, and what each command does to  *)
(* the directory it runs in.                                               *)
(***************************************************************************)
gitCredsPath == <<"authDir/", ".git-credentials">>

FetchArgs(o) ==
    <<"fetch", "origin">>
    \o (IF HasPrefix(o.Ref, <<"origin/">>) THEN SubSeq(o.Ref, 2, Len(o.Ref)) ELSE <<>>)
    \o (IF o.Depth > 0 THEN <<"--depth", ToString(o.Depth)>> ELSE <<>>)

\* GitArgss with a fault: a supplied bundle takes the place of the fetch.
GitArgss_BundleReplacesFetch(o, a, bndl) ==
    << <<"init">>,
       <<"config", "credential.helper", "store --file ">> \o gitCredsPath,
       <<"remote", "add", "origin">> \o o.URL >>
    \o (IF o.SparseCheckout
        THEN << <<"sparse-checkout", "set", "--no-cone", "include", "!exclude">> >>
        ELSE <<>>)
    \o (IF a.Username # None /\ a.Password # None /\ o.ForceHTTPBasicAuth
        THEN << <<"config", "--add", "http.extraHeader", "Authorization: Basic ">>
                \o Base64(The(a.Username) \o <<":">> \o The(a.Password)) >>
        ELSE <<>>)
    \o << <<"config", "remote.origin.tagOpt", "--tags">> >>
    \o (IF bndl # <<>> THEN << <<"bundle", "unbundle">> \o bndl >> ELSE << FetchArgs(o) >>)

GitArgss(o, a, bndl) ==
    << <<"init">>,
       <<"config", "credential.helper", "store --file ">> \o gitCredsPath,
       <<"remote", "add", "origin">> \o o.URL >>
    \o (IF o.SparseCheckout
        THEN << <<"sparse-checkout", "set", "--no-cone", "include", "!exclude">> >>
        ELSE <<>>)
    \o (IF a.Username # None /\ a.Password # None /\ o.ForceHTTPBasicAuth
        THEN << <<"config", "--add", "http.extraHeader", "Authorization: Basic ">>
                \o Base64(The(a.Username) \o <<":">> \o The(a.Password)) >>
        ELSE <<>>)
    \o << <<"config", "remote.origin.tagOpt", "--tags">> >>
    \o (IF bndl # <<>> THEN << <<"bundle", "unbundle">> \o bndl >> ELSE <<>>)
    \o << FetchArgs(o) >>

\* The revision a ref names in a git repository, 0 when it names none.
GitRevOf(dir, r) ==
    IF r = <<"main">> THEN Tip(dir.refs)
    ELSE IF \E x \in dir.refs : r = <<"v", ToString(x)>>
         THEN CHOOSE x \in dir.refs : r = <<"v", ToString(x)>>
    ELSE IF \E x \in dir.store : r \in {Node(x), ShortID(x), Abbrev(x)}
         THEN CHOOSE x \in dir.store : r \in {Node(x), ShortID(x), Abbrev(x)}
    ELSE 0

\* A command that exits non-zero whatever the outside world does.
GitCmdRefused(args, dir, c) ==
    \/ /\ HasPrefix(args, <<"bundle", "unbundle">>)
       /\ \/ ~\E e \in c : <<e.type, e.id>> = <<args[3], SubSeq(args, 4, Len(args) - 1)>>
          \/ \E e \in c : /\ <<e.type, e.id>> = <<args[3], SubSeq(args, 4, Len(args) - 1)>>
                           /\ e.dir.damaged
    \/ /\ "checkout" \in {args[i] : i \in 1..Len(args)}
       /\ GitRevOf(dir, SubSeq(args, 4, Len(args))) = 0

\* The directory after a git command has run successfully in it.
GitExec(args, dir, rem, c) ==
    CASE Head(args) = "config" ->
           [dir EXCEPT !.config = @ \cup {Tail(args)}]
      [] Head(args) = "remote" ->
           [dir EXCEPT !.config = @ \cup {<<"remote.origin.url">> \o SubSeq(args, 4, Len(args))}]
      [] Head(args) = "sparse-checkout" ->
           [dir EXCEPT !.config = @ \cup {args}]
      [] HasPrefix(args, <<"bundle", "unbundle">>) ->
           [dir EXCEPT !.store = @ \cup
               CacheEntry(c, args[3], SubSeq(args, 4, Len(args) - 1)).store]
      [] Head(args) = "fetch" ->
           [dir EXCEPT !.store = @ \cup rem, !.refs = rem]
      [] "checkout" \in {args[i] : i \in 1..Len(args)} ->
           [dir EXCEPT !.wt = GitRevOf(dir, SubSeq(args, 4, Len(args)))]
      [] OTHER -> dir

\* A command that ran and exited with status zero, and one that did not.
Cmd(args, where) == [args |-> args, dir |-> where, failed |-> FALSE]
CmdFailed(args, where) == [args |-> args, dir |-> where, failed |-> TRUE]

(***************************************************************************)
(* Returning from Sync.  A return runs the deferred calls: the staging     *)
(* directory and (git) the bundle directory are removed; the auth          *)
(* directory is removed when closeAuth holds (git: the defer in fetch; hg: *)
(* the deferred hg.Close(), registered only once NewHg has returned).      *)
(***************************************************************************)
ReturnErr(e, closeAuth, outside, newCmds) ==
    /\ pc' = "done"
    /\ err' = e
    /\ incoming' = None
    /\ bundleDir' = None
    /\ authDir' = IF closeAuth THEN None ELSE authDir
    /\ faulted' = (faulted \/ outside)
    /\ cmds' = newCmds
    /\ UNCHANGED <<remote, cache, dst, nsync, opts, cacheImpl, lock, cacheID, bundle,
                   authOpts, argss, ref, info, cachePath, verified, dstBefore, cacheBefore>>

\* A step that only moves on, changing nothing but the listed locals.
Goto(next) == pc' = next

StartSync(S) ==
    /\ pc \in {"idle", "done"}
    /\ nsync < MaxSyncs
    /\ \E o \in S : opts' = o
    /\ nsync' = nsync + 1
    /\ pc' = "Sync"
    /\ incoming' = None /\ authDir' = None /\ bundleDir' = None
    /\ cmds' = <<>> /\ lock' = NoLock /\ err' = <<>>
    /\ cacheID' = <<>> /\ bundle' = <<>> /\ authOpts' = NoAuth /\ argss' = <<>>
    /\ ref' = <<>> /\ info' = NoInfo /\ cachePath' = None /\ verified' = <<>>
    /\ dstBefore' = dst /\ cacheBefore' = cache /\ faulted' = FALSE
    /\ UNCHANGED <<remote, cache, dst, cacheImpl>>

\* Between syncs the remote repository gains a changeset (hg unbundle, a
\* push) or loses one (hg strip, a forced push), never its last one.  Nothing
\* of the sync that has returned is kept but the cache and the destination.
RemoteChange ==
    /\ pc \in {"idle", "done"}
    /\ nsync < MaxSyncs
    /\ \E r \in Revs :
          \/ r \notin remote /\ remote' = remote \cup {r}
          \/ r \in remote /\ remote # {r} /\ remote' = remote \ {r}
    /\ pc' = "idle"
    /\ opts' = GitDefaults
    /\ incoming' = None /\ authDir' = None /\ bundleDir' = None
    /\ cmds' = <<>> /\ lock' = NoLock /\ err' = <<>>
    /\ cacheID' = <<>> /\ bundle' = <<>> /\ authOpts' = NoAuth /\ argss' = <<>>
    /\ ref' = <<>> /\ info' = NoInfo /\ cachePath' = None /\ verified' = <<>>
    /\ dstBefore' = dst /\ cacheBefore' = cache /\ faulted' = FALSE
    /\ UNCHANGED <<cache, dst, nsync, cacheImpl>>

(***************************************************************************)
(* git: Sync.Sync, Git.Retrieve and Git.fetch, one action per step.        *)
(***************************************************************************)
GitErr(e) == <<"Fetching git repository: ">> \o e

GitSyncNewTempDir ==
    /\ pc = "Sync" /\ opts.backend = "git"
    /\ \/ /\ incoming' = Some(EmptyDir)
          /\ Goto("g_Has")
          /\ UNCHANGED <<world, cache, dst, authDir, bundleDir, cmds, lock, err, cacheID,
                         bundle, authOpts, argss, ref, info, cachePath, verified, faulted>>
       \/ ReturnErr(<<"NewTempDir git">>, TRUE, TRUE, cmds)

GitCacheProbe ==
    /\ pc = "g_Has"
    /\ LET id == GitCacheID(opts)
       IN /\ cacheID' = id
          /\ bundle' = IF CacheHas(cacheImpl, cache, gitCacheType, id)
                       THEN <<gitCacheType>> \o id \o <<"bundle">>
                       ELSE <<>>
    /\ Goto("g_Retrieve")
    /\ UNCHANGED <<world, cache, dst, incoming, authDir, bundleDir, cmds, lock, err,
                   authOpts, argss, ref, info, cachePath, verified, faulted>>

GitRetrieve ==
    /\ pc = "g_Retrieve"
    /\ IF Len(opts.URL) = 0
       THEN ReturnErr(GitErr(<<"Expected non-empty URL">>), TRUE, FALSE, cmds)
       ELSE /\ Goto("g_getAuthOpts")
            /\ UNCHANGED <<world, cache, dst, incoming, authDir, bundleDir, cmds, lock,
                           err, cacheID, bundle, authOpts, argss, ref, info, cachePath,
                           verified, faulted>>

GitGetAuthOpts ==
    /\ pc = "g_getAuthOpts"
    /\ IF opts.SecretRef = None
       THEN /\ authOpts' = NoAuth
            /\ Goto("g_authDir")
            /\ UNCHANGED <<world, cache, dst, incoming, authDir, bundleDir, cmds, lock,
                           err, cacheID, bundle, argss, ref, info, cachePath, verified,
                           faulted>>
       ELSE \/ ReturnErr(GitErr(<<"GetSecret">>), TRUE, TRUE, cmds)
            \/ \E order \in Orders(DOMAIN SecretData(The(opts.SecretRef))) :
                 LET a == authLoop(order, SecretData(The(opts.SecretRef)),
                                   The(opts.SecretRef), NoAuth)
                 IN IF a.err # <<>>
                    THEN ReturnErr(GitErr(a.err), TRUE, FALSE, cmds)
                    ELSE /\ authOpts' = a
                         /\ Goto("g_authDir")
                         /\ UNCHANGED <<world, cache, dst, incoming, authDir, bundleDir,
                                        cmds, lock, err, cacheID, bundle, argss, ref, info,
                                        cachePath, verified, faulted>>

GitNewAuthDir ==
    /\ pc = "g_authDir"
    /\ \/ /\ authDir' = Some({})
          /\ Goto("g_stage")
          /\ UNCHANGED <<world, cache, dst, incoming, bundleDir, cmds, lock, err, cacheID,
                         bundle, authOpts, argss, ref, info, cachePath, verified, faulted>>
       \/ ReturnErr(GitErr(<<"NewTempDir git-auth">>), TRUE, TRUE, cmds)

\* The files fetch writes into authDir, in the order it writes them.
GitAuthFiles(o, a) ==
    (IF a.PrivateKey # None
     THEN <<File("private-key", The(a.PrivateKey) \o <<"\n">>)>> ELSE <<>>)
    \o (IF a.KnownHosts # None
        THEN <<File("known-hosts", The(a.KnownHosts))>> ELSE <<>>)
    \o (IF a.Username # None /\ a.Password # None /\ ~o.ForceHTTPBasicAuth
           /\ HasPrefix(o.URL, <<"https://">>)
        THEN <<File(".git-credentials",
                    <<o.URL[1]>> \o The(a.Username) \o <<":">> \o The(a.Password)
                    \o <<"@", o.URL[2], "\n">>)>>
        ELSE <<>>)

Range(s) == {s[i] : i \in 1..Len(s)}

\* GitStageAuth with a fault: the https check of username/password is missing.
GitStageAuth_NoHttpsCheck ==
    /\ pc = "g_stage"
    /\ LET files == GitAuthFiles(opts, authOpts)
       IN \/ \E i \in 1..Len(files) :
                   ReturnErr(GitErr(<<"Writing ", files[i].name>>), TRUE, TRUE, cmds)
          \/ /\ authDir' = Some(Range(files))
             /\ argss' = GitArgss(opts, authOpts, bundle)
             /\ Goto("g_RunMultiple")
             /\ UNCHANGED <<world, cache, dst, incoming, bundleDir, cmds, lock, err,
                            cacheID, bundle, authOpts, ref, info, cachePath, verified,
                            faulted>>

GitStageAuth ==
    /\ pc = "g_stage"
    /\ LET files == GitAuthFiles(opts, authOpts)
           userpass == authOpts.Username # None /\ authOpts.Password # None
       IN \/ \E i \in 1..Len(files) :
                \* os.WriteFile of the i-th file fails
                   ReturnErr(GitErr(<<"Writing ", files[i].name>>), TRUE, TRUE, cmds)
          \/ /\ userpass /\ ~HasPrefix(opts.URL, <<"https://">>)
             /\ ReturnErr(GitErr(<<"Username/password authentication is only supported for https remotes">>),
                          TRUE, FALSE, cmds)
          \/ /\ ~(userpass /\ ~HasPrefix(opts.URL, <<"https://">>))
             /\ authDir' = Some(Range(files))
             /\ argss' = GitArgss(opts, authOpts, bundle)
             /\ Goto("g_RunMultiple")
             /\ UNCHANGED <<world, cache, dst, incoming, bundleDir, cmds, lock, err,
                            cacheID, bundle, authOpts, ref, info, cachePath, verified,
                            faulted>>

\* One iteration of runner.RunMultiple over the command list of fetch.
\* GitRunMultiple with a fault: a bundle that cannot be applied is passed
\* over and the list goes on with the fetch.
GitRunMultiple_SkipsBadBundle ==
    /\ pc = "g_RunMultiple"
    /\ LET args == Head(argss)
           log == Append(cmds, Cmd(args, "incoming"))
           flog == Append(cmds, CmdFailed(args, "incoming"))
       IN IF GitCmdRefused(args, The(incoming), cache)
          THEN /\ cmds' = flog
               /\ argss' = Tail(argss)
               /\ Goto(IF Tail(argss) = <<>> THEN "g_resolveRef" ELSE "g_RunMultiple")
               /\ UNCHANGED <<world, cache, dst, incoming, authDir, bundleDir, lock, err,
                              cacheID, bundle, authOpts, ref, info, cachePath, verified,
                              faulted>>
          ELSE \/ ReturnErr(GitErr(<<"Git ">> \o args), TRUE, TRUE, flog)
               \/ /\ incoming' = Some(GitExec(args, The(incoming), remote, cache))
                  /\ cmds' = log
                  /\ argss' = Tail(argss)
                  /\ Goto(IF Tail(argss) = <<>> THEN "g_resolveRef" ELSE "g_RunMultiple")
                  /\ UNCHANGED <<world, cache, dst, authDir, bundleDir, lock, err, cacheID,
                                 bundle, authOpts, ref, info, cachePath, verified, faulted>>

GitRunMultiple ==
    /\ pc = "g_RunMultiple"
    /\ LET args == Head(argss)
           log == Append(cmds, Cmd(args, "incoming"))
           flog == Append(cmds, CmdFailed(args, "incoming"))
       IN IF GitCmdRefused(args, The(incoming), cache)
          THEN ReturnErr(GitErr(<<"Git ">> \o args), TRUE, FALSE, flog)
          ELSE \/ ReturnErr(GitErr(<<"Git ">> \o args), TRUE, TRUE, flog)
               \/ /\ incoming' = Some(GitExec(args, The(incoming), remote, cache))
                  /\ cmds' = log
                  /\ argss' = Tail(argss)
                  /\ Goto(IF Tail(argss) = <<>> THEN "g_resolveRef" ELSE "g_RunMultiple")
                  /\ UNCHANGED <<world, cache, dst, authDir, bundleDir, lock, err, cacheID,
                                 bundle, authOpts, ref, info, cachePath, verified, faulted>>

\* ctlver.HighestConstrainedVersion(tags, selection): the highest tag the
\* constraint admits; the constraint "*" admits every tag.
HighestConstrainedVersion(tagRevs, selection) ==
    IF tagRevs = {} THEN <<>> ELSE <<"v", ToString(Max(tagRevs))>>

\* ExplicitRef with a fault: the remote-tracking prefix is kept.
ExplicitRef_KeepsPrefix(r) == r

\* Git.resolveRef for an explicit ref.
ExplicitRef(r) == IF HasPrefix(r, <<"origin/">>) THEN SubSeq(r, 2, Len(r)) ELSE r

\* GitResolveRef with a fault: with neither ref nor ref selection the
\* default branch is taken.
GitResolveRef_DefaultsToMain ==
    /\ pc = "g_resolveRef"
    /\ ref' = IF Len(opts.Ref) > 0 THEN ExplicitRef(opts.Ref)
              ELSE IF opts.RefSelection # None /\ The(incoming).refs # {}
                   THEN HighestConstrainedVersion(The(incoming).refs, The(opts.RefSelection))
              ELSE <<"main">>
    /\ Goto("g_Verify")
    /\ UNCHANGED <<world, cache, dst, incoming, authDir, bundleDir, cmds, lock,
                   err, cacheID, bundle, authOpts, argss, info, cachePath,
                   verified, faulted>>

GitResolveRef ==
    /\ pc = "g_resolveRef"
    /\ CASE Len(opts.Ref) > 0 ->
              /\ ref' = ExplicitRef(opts.Ref)
              /\ Goto("g_Verify")
              /\ UNCHANGED <<world, cache, dst, incoming, authDir, bundleDir, cmds, lock,
                             err, cacheID, bundle, authOpts, argss, info, cachePath,
                             verified, faulted>>
         [] Len(opts.Ref) = 0 /\ opts.RefSelection # None ->
              LET log == Append(cmds, Cmd(<<"tag", "-l">>, "incoming"))
                  flog == Append(cmds, CmdFailed(<<"tag", "-l">>, "incoming"))
                  best == HighestConstrainedVersion(The(incoming).refs, The(opts.RefSelection))
              IN \/ ReturnErr(GitErr(<<"Git tag -l">>), TRUE, TRUE, flog)
                 \/ IF best = <<>>
                    THEN ReturnErr(GitErr(<<"Expected to find at least one version">>),
                                   TRUE, FALSE, log)
                    ELSE /\ ref' = best
                         /\ cmds' = log
                         /\ Goto("g_Verify")
                         /\ UNCHANGED <<world, cache, dst, incoming, authDir, bundleDir,
                                        lock, err, cacheID, bundle, authOpts, argss, info,
                                        cachePath, verified, faulted>>
         [] OTHER ->
              ReturnErr(GitErr(<<"Expected either ref or ref selection to be specified">>),
                        TRUE, FALSE, cmds)

\* GitVerify with a fault: a rejection is recorded but fetch goes on to checkout.
GitVerify_NotFatal ==
    /\ pc = "g_Verify"
    /\ \E ok \in BOOLEAN :
          verified' = IF opts.Verification
                      THEN Append(verified, [ref |-> ref, ok |-> ok]) ELSE verified
    /\ Goto("g_checkout")
    /\ UNCHANGED <<world, cache, dst, incoming, authDir, bundleDir, cmds, lock, err,
                   cacheID, bundle, authOpts, argss, ref, info, cachePath, faulted>>

\* Verification{...}.Verify(ref): accepts or rejects the ref.
GitVerify ==
    /\ pc = "g_Verify"
    /\ IF ~opts.Verification
       THEN /\ Goto("g_checkout")
            /\ UNCHANGED <<world, cache, dst, incoming, authDir, bundleDir, cmds, lock,
                           err, cacheID, bundle, authOpts, argss, ref, info, cachePath,
                           verified, faulted>>
       ELSE \/ /\ verified' = Append(verified, [ref |-> ref, ok |-> TRUE])
               /\ Goto("g_checkout")
               /\ UNCHANGED <<world, cache, dst, incoming, authDir, bundleDir, cmds, lock,
                              err, cacheID, bundle, authOpts, argss, ref, info, cachePath,
                              faulted>>
            \/ /\ verified' = Append(verified, [ref |-> ref, ok |-> FALSE])
               /\ pc' = "done"
               /\ err' = GitErr(<<"Verification failed">>)
               /\ incoming' = None /\ bundleDir' = None /\ authDir' = None
               /\ faulted' = TRUE
               /\ UNCHANGED <<world, cache, dst, cmds, lock, cacheID, bundle, authOpts,
                              argss, ref, info, cachePath>>

CheckoutArgs(r) == <<"-c", "advice.detachedHead=false", "checkout">> \o r

GitCheckout ==
    /\ pc = "g_checkout"
    /\ LET args == CheckoutArgs(ref)
           log == Append(cmds, Cmd(args, "incoming"))
           flog == Append(cmds, CmdFailed(args, "incoming"))
       IN IF GitCmdRefused(args, The(incoming), cache)
          THEN ReturnErr(GitErr(<<"Git ">> \o args), TRUE, FALSE, flog)
          ELSE \/ ReturnErr(GitErr(<<"Git ">> \o args), TRUE, TRUE, flog)
               \/ /\ incoming' = Some(GitExec(args, The(incoming), remote, cache))
                  /\ cmds' = log
                  /\ Goto("g_submodule")
                  /\ UNCHANGED <<world, cache, dst, authDir, bundleDir, lock, err, cacheID,
                                 bundle, authOpts, argss, ref, info, cachePath, verified,
                                 faulted>>

\* The submodule update, and the return of fetch with its deferred
\* os.RemoveAll(authDir).
GitSubmodules ==
    /\ pc = "g_submodule"
    /\ IF opts.SkipInitSubmodules
       THEN /\ authDir' = None
            /\ Goto("g_revparse")
            /\ UNCHANGED <<world, cache, dst, incoming, bundleDir, cmds, lock, err,
                           cacheID, bundle, authOpts, argss, ref, info, cachePath,
                           verified, faulted>>
       ELSE LET args == <<"submodule", "update", "--init", "--recursive">>
                log == Append(cmds, Cmd(args, "incoming"))
                flog == Append(cmds, CmdFailed(args, "incoming"))
            IN \/ ReturnErr(GitErr(<<"Git ">> \o args), TRUE, TRUE, flog)
               \/ /\ authDir' = None
                  /\ cmds' = log
                  /\ Goto("g_revparse")
                  /\ UNCHANGED <<world, cache, dst, incoming, bundleDir, lock, err,
                                 cacheID, bundle, authOpts, argss, ref, info, cachePath,
                                 verified, faulted>>

GitRevParse ==
    /\ pc = "g_revparse"
    /\ LET args == <<"rev-parse", "HEAD">>
           log == Append(cmds, Cmd(args, "incoming"))
           flog == Append(cmds, CmdFailed(args, "incoming"))
           out == Node(The(incoming).wt) \o <<"\n">>
       IN \/ ReturnErr(GitErr(<<"Git ">> \o args), TRUE, TRUE, flog)
          \/ /\ info' = [info EXCEPT !.SHA = TrimSpace(out)]
             /\ cmds' = log
             /\ Goto("g_describe")
             /\ UNCHANGED <<world, cache, dst, incoming, authDir, bundleDir, lock, err,
                            cacheID, bundle, authOpts, argss, ref, cachePath, verified,
                            faulted>>

\* describe --tags: its failure is not an error of Retrieve; Tags stay empty.
GitDescribe ==
    /\ pc = "g_describe"
    /\ LET args == <<"describe", "--tags">> \o info.SHA
           log == Append(cmds, Cmd(args, "incoming"))
           flog == Append(cmds, CmdFailed(args, "incoming"))
           d == The(incoming)
       IN /\ Goto("g_log")
          /\ \/ /\ d.wt \in d.refs
                /\ info' = [info EXCEPT !.Tags = <<<<"v", ToString(d.wt)>>>>]
                /\ cmds' = log
                /\ faulted' = faulted
             \/ /\ d.wt \notin d.refs
                /\ cmds' = flog
                /\ UNCHANGED <<info, faulted>>
             \/ /\ d.wt \in d.refs
                /\ cmds' = flog
                /\ faulted' = TRUE
                /\ info' = info
          /\ UNCHANGED <<world, cache, dst, incoming, authDir, bundleDir, lock, err,
                         cacheID, bundle, authOpts, argss, ref, cachePath, verified>>

\* log -n 1 --pretty=%B, the return of Retrieve, and Sync filling gitLockConf.
GitLog ==
    /\ pc = "g_log"
    /\ LET args == <<"log", "-n", "1", "--pretty=%B">> \o info.SHA
           log == Append(cmds, Cmd(args, "incoming"))
           flog == Append(cmds, CmdFailed(args, "incoming"))
           out == Message(The(incoming).wt) \o <<"\n">>
           title == TrimSpace(out)
       IN \/ ReturnErr(GitErr(<<"Git ">> \o args), TRUE, TRUE, flog)
          \/ /\ info' = [info EXCEPT !.Title = title]
             /\ lock' = [SHA |-> info.SHA, Tags |-> info.Tags,
                         Title |-> singleLineCommitTitle(title)]
             /\ cmds' = log
             /\ Goto("g_bundleDir")
             /\ UNCHANGED <<world, cache, dst, incoming, authDir, bundleDir, err, cacheID,
                            bundle, authOpts, argss, ref, cachePath, verified, faulted>>

\* if _, ok := d.cache.(*ctlcache.NoCache); !ok { bundleDir := NewTempDir(...) }
GitBundleTempDir ==
    /\ pc = "g_bundleDir"
    /\ IF cacheImpl = "NoCache"
       THEN /\ Goto("g_RemoveAll")
            /\ UNCHANGED <<world, cache, dst, incoming, authDir, bundleDir, cmds, lock,
                           err, cacheID, bundle, authOpts, argss, ref, info, cachePath,
                           verified, faulted>>
       ELSE \/ ReturnErr(<<"NewTempDir bundleCache">>, TRUE, TRUE, cmds)
            \/ /\ bundleDir' = Some(EmptyDir)
               /\ Goto("g_forEachRef")
               /\ UNCHANGED <<world, cache, dst, incoming, authDir, cmds, lock, err,
                              cacheID, bundle, authOpts, argss, ref, info, cachePath,
                              verified, faulted>>

GitForEachRef ==
    /\ pc = "g_forEachRef"
    /\ LET args == <<"for-each-ref", "--format=%(refname)">>
           log == Append(cmds, Cmd(args, "incoming"))
           flog == Append(cmds, CmdFailed(args, "incoming"))
       IN \/ ReturnErr(<<"Git ">> \o args, TRUE, TRUE, flog)
          \/ /\ cmds' = log
             /\ Goto("g_bundleCreate")
             /\ UNCHANGED <<world, cache, dst, incoming, authDir, bundleDir, lock, err,
                            cacheID, bundle, authOpts, argss, ref, info, cachePath,
                            verified, faulted>>

\* bundle create <bundleDir>/bundle <refs...>: the bundle holds what the refs reach.
GitBundleCreate ==
    /\ pc = "g_bundleCreate"
    /\ LET args == <<"bundle", "create", "bundleDir/bundle", "refs...">>
           log == Append(cmds, Cmd(args, "incoming"))
           flog == Append(cmds, CmdFailed(args, "incoming"))
       IN IF The(incoming).refs = {}
          THEN ReturnErr(<<"Git ">> \o args, TRUE, FALSE, flog)
          ELSE \/ ReturnErr(<<"Git ">> \o args, TRUE, TRUE, flog)
               \/ /\ bundleDir' = Some([EmptyDir EXCEPT !.store = The(incoming).refs])
                  /\ cmds' = log
                  /\ Goto("g_Save")
                  /\ UNCHANGED <<world, cache, dst, incoming, authDir, lock, err, cacheID,
                                 bundle, authOpts, argss, ref, info, cachePath, verified,
                                 faulted>>

\* GitCacheSave with a fault: a failed Save is ignored and Sync goes on.
GitCacheSave_IgnoresError ==
    /\ pc = "g_Save"
    /\ \/ cache' = cache
       \/ cache' = CacheSave(cacheImpl, cache, gitCacheType, cacheID, The(bundleDir))
    /\ Goto("g_RemoveAll")
    /\ UNCHANGED <<world, dst, incoming, authDir, bundleDir, cmds, lock, err, cacheID,
                   bundle, authOpts, argss, ref, info, cachePath, verified, faulted>>

GitCacheSave ==
    /\ pc = "g_Save"
    /\ \/ ReturnErr(<<"cache Save">>, TRUE, TRUE, cmds)
       \/ /\ cache' = CacheSave(cacheImpl, cache, gitCacheType, cacheID, The(bundleDir))
          /\ Goto("g_RemoveAll")
          /\ UNCHANGED <<world, dst, incoming, authDir, bundleDir, cmds, lock, err,
                         cacheID, bundle, authOpts, argss, ref, info, cachePath, verified,
                         faulted>>

(***************************************************************************)
(* The replacement of the destination, the same two calls in both Syncs.   *)
(***************************************************************************)
\* What a failed os.RemoveAll can leave at a path.
AfterFailedRemoveAll(d) ==
    IF d = None THEN {d} ELSE {d, Some([The(d) EXCEPT !.damaged = TRUE])}

\* err = os.RemoveAll(dstPath)
RemoveAllDst(here, next, closeAuth) ==
    /\ pc = here
    /\ \/ /\ dst' = None
          /\ Goto(next)
          /\ UNCHANGED <<world, cache, incoming, authDir, bundleDir, cmds, lock, err,
                         cacheID, bundle, authOpts, argss, ref, info, cachePath, verified,
                         faulted>>
       \/ /\ dst' \in AfterFailedRemoveAll(dst)
          /\ pc' = "done"
          /\ err' = <<"Deleting dir dstPath">>
          /\ incoming' = None /\ bundleDir' = None
          /\ authDir' = IF closeAuth THEN None ELSE authDir
          /\ faulted' = TRUE
          /\ UNCHANGED <<world, cache, cmds, lock, cacheID, bundle, authOpts, argss, ref,
                         info, cachePath, verified>>

\* err = os.Rename(incomingTmpPath, dstPath); return lockConf, nil
RenameIncoming(here, closeAuth) ==
    /\ pc = here
    /\ \/ /\ dst' = incoming
          /\ incoming' = None /\ bundleDir' = None
          /\ authDir' = IF closeAuth THEN None ELSE authDir
          /\ pc' = "done"
          /\ UNCHANGED <<world, cache, cmds, lock, err, cacheID, bundle, authOpts, argss,
                         ref, info, cachePath, verified, faulted>>
       \/ ReturnErr(<<"Moving directory incomingTmpPath to staging dir">>,
                    closeAuth, TRUE, cmds)

GitRemoveAll == RemoveAllDst("g_RemoveAll", "g_Rename", TRUE)
GitRename == RenameIncoming("g_Rename", TRUE)

(***************************************************************************)
(* hg: Sync.Sync and the hg helper (newHg/setup, clone, syncClone,         *)
(* cloneHasTargetRef, checkout, Close), one action per step.               *)
(***************************************************************************)
HgErr(what, e) == <<what>> \o e

\* cacheID := t.opts.URL; sha := sha256.Sum256([]byte(cacheID)); hex.EncodeToString(sha[:])
\* HgCacheID with a fault: only the host of the URL is hashed.
HgCacheID_HostOnly(o) == Hex(Sum256(IF Len(o.URL) > 1 THEN <<o.URL[2]>> ELSE o.URL))

HgCacheID(o) == Hex(Sum256(o.URL))

\* The revision a ref names in an hg repository, 0 when it names none.
HgRevOf(dir, r) ==
    IF r = <<"default">> THEN Tip(dir.store)
    ELSE IF \E x \in dir.store : r \in {Node(x), ShortID(x), Abbrev(x)}
         THEN CHOOSE x \in dir.store : r \in {Node(x), ShortID(x), Abbrev(x)}
    ELSE 0

HgSshCmd(a) ==
    <<"ssh -o ServerAliveInterval=30 -o ForwardAgent=no -F /dev/null">>
    \o (IF a.PrivateKey # None
        THEN <<" -i authDir/private-key -o IdentitiesOnly=yes">> ELSE <<>>)
    \o (IF a.KnownHosts # None
        THEN <<" -o StrictHostKeyChecking=yes -o UserKnownHostsFile=authDir/known-hosts">>
        ELSE <<" -o StrictHostKeyChecking=no">>)

\* The content of the hgrc file setup synthesizes.
HgRc(o, a) ==
    (IF o.Evolve THEN <<"[extensions]\nevolve =\ntopic =">> ELSE <<>>)
    \o (IF a.Username # None /\ a.Password # None
        THEN <<"\n[auth]\nhgauth.prefix = https://", o.URL[2], "\nhgauth.username = ">>
             \o The(a.Username) \o <<"\nhgauth.password = ">> \o The(a.Password)
             \o <<"\n">>
        ELSE <<>>)
    \o (IF IsPresent(a) THEN <<"\n[ui]\nssh = ">> \o HgSshCmd(a) \o <<"\n">> ELSE <<>>)

\* The files setup writes into authDir, in the order it writes them.
HgAuthFiles(o, a) ==
    (IF a.PrivateKey # None THEN <<File("private-key", The(a.PrivateKey))>> ELSE <<>>)
    \o (IF a.KnownHosts # None THEN <<File("known-hosts", The(a.KnownHosts))>> ELSE <<>>)
    \o (IF Len(HgRc(o, a)) > 0 THEN <<File("hgrc", HgRc(o, a))>> ELSE <<>>)

HgSyncNewTempDir ==
    /\ pc = "Sync" /\ opts.backend = "hg"
    /\ \/ /\ incoming' = Some(EmptyDir)
          /\ Goto("h_setup")
          /\ UNCHANGED <<world, cache, dst, authDir, bundleDir, cmds, lock, err, cacheID,
                         bundle, authOpts, argss, ref, info, cachePath, verified, faulted>>
       \/ ReturnErr(<<"NewTempDir hg">>, FALSE, TRUE, cmds)

\* setup: the URL check and getAuthOpts.
HgSetupAuthOpts ==
    /\ pc = "h_setup"
    /\ IF Len(opts.URL) = 0
       THEN ReturnErr(HgErr("Setting up hg: ", <<"Expected non-empty URL">>),
                      FALSE, FALSE, cmds)
       ELSE IF opts.SecretRef = None
       THEN /\ authOpts' = NoAuth
            /\ Goto("h_authDir")
            /\ UNCHANGED <<world, cache, dst, incoming, authDir, bundleDir, cmds, lock,
                           err, cacheID, bundle, argss, ref, info, cachePath, verified,
                           faulted>>
       ELSE \/ ReturnErr(HgErr("Setting up hg: ", <<"GetSecret">>), FALSE, TRUE, cmds)
            \/ \E order \in Orders(DOMAIN SecretData(The(opts.SecretRef))) :
                 LET a == authLoop(order, SecretData(The(opts.SecretRef)),
                                   The(opts.SecretRef), NoAuth)
                 IN IF a.err # <<>>
                    THEN ReturnErr(HgErr("Setting up hg: ", a.err), FALSE, FALSE, cmds)
                    ELSE /\ authOpts' = a
                         /\ Goto("h_authDir")
                         /\ UNCHANGED <<world, cache, dst, incoming, authDir, bundleDir,
                                        cmds, lock, err, cacheID, bundle, argss, ref, info,
                                        cachePath, verified, faulted>>

\* setup: authDir, err := tempArea.NewTempDir("hg-auth"); t.authDir = authDir
HgNewAuthDir ==
    /\ pc = "h_authDir"
    /\ \/ /\ authDir' = Some({})
          /\ Goto("h_stage")
          /\ UNCHANGED <<world, cache, dst, incoming, bundleDir, cmds, lock, err, cacheID,
                         bundle, authOpts, argss, ref, info, cachePath, verified, faulted>>
       \/ ReturnErr(HgErr("Setting up hg: ", <<"NewTempDir hg-auth">>), FALSE, TRUE, cmds)

\* setup from the https check to the end, and the return of newHg.  An error
\* makes newHg return nil, so Sync returns before it defers hg.Close().
HgStageAuth ==
    /\ pc = "h_stage"
    /\ LET files == HgAuthFiles(opts, authOpts)
           userpass == authOpts.Username # None /\ authOpts.Password # None
       IN IF userpass /\ ~HasPrefix(opts.URL, <<"https://">>)
          THEN ReturnErr(HgErr("Setting up hg: ",
                      <<"Username/password authentication is only supported for https remotes">>),
                         FALSE, FALSE, cmds)
          ELSE \/ \E i \in 1..Len(files) :
                     \* os.WriteFile of the i-th file fails
                     /\ authDir' = Some(Range(SubSeq(files, 1, i - 1)))
                     /\ pc' = "done"
                     /\ err' = HgErr("Setting up hg: ", <<"Writing ", files[i].name>>)
                     /\ incoming' = None /\ bundleDir' = None
                     /\ faulted' = TRUE
                     /\ UNCHANGED <<world, cache, dst, cmds, lock, cacheID, bundle,
                                    authOpts, argss, ref, info, cachePath, verified>>
               \/ /\ authDir' = Some(Range(files))
                  /\ cacheID' = HgCacheID(opts)
                  /\ Goto("h_Has")
                  /\ UNCHANGED <<world, cache, dst, incoming, bundleDir, cmds, lock, err,
                                 bundle, authOpts, argss, ref, info, cachePath, verified,
                                 faulted>>

\* if cachePath, ok := d.cache.Has("hg", hg.CacheID()); ok { ... } else { ... }
HgCacheProbe ==
    /\ pc = "h_Has"
    /\ IF CacheHas(cacheImpl, cache, "hg", cacheID)
       THEN /\ cachePath' = Some(cacheID)
            /\ Goto("h_CopyFrom")
       ELSE /\ cachePath' = None
            /\ Goto("h_init")
    /\ UNCHANGED <<world, cache, dst, incoming, authDir, bundleDir, cmds, lock, err,
                   cacheID, bundle, authOpts, argss, ref, info, verified, faulted>>

HgCopyFrom ==
    /\ pc = "h_CopyFrom"
    /\ \/ ReturnErr(HgErr("Extracting cached hg clone: ", <<"CopyFrom">>), TRUE, TRUE, cmds)
       \/ /\ incoming' = Some(CacheEntry(cache, "hg", cacheID))
          /\ Goto("h_hasRef")
          /\ UNCHANGED <<world, cache, dst, authDir, bundleDir, cmds, lock, err, cacheID,
                         bundle, authOpts, argss, ref, info, cachePath, verified, faulted>>

\* cloneHasTargetRef with a fault: every ref the clone can look up counts.
cloneHasTargetRef_AnyRef(o, dir, runs) ==
    /\ runs
    /\ HgRevOf(dir, o.Ref) # 0

\* out := `hg id --id -r ref` run in dstPath; true when it succeeds and
\* strings.HasPrefix(t.opts.Ref, strings.TrimSpace(out)).
cloneHasTargetRef(o, dir, runs) ==
    /\ runs
    /\ HgRevOf(dir, o.Ref) # 0
    /\ HasPrefix(o.Ref, TrimSpace(ShortID(HgRevOf(dir, o.Ref)) \o <<"\n">>))

HgCloneHasTargetRef ==
    /\ pc = "h_hasRef"
    /\ LET args == <<"id", "--id", "-r">> \o opts.Ref
           dir == CacheEntry(cache, "hg", The(cachePath))
       IN \E runs \in BOOLEAN :
             /\ cmds' = Append(cmds, IF runs /\ HgRevOf(dir, opts.Ref) # 0
                                     THEN Cmd(args, "cache") ELSE CmdFailed(args, "cache"))
             /\ faulted' = (faulted \/ ~runs)
             /\ Goto(IF cloneHasTargetRef(opts, dir, runs) THEN "h_checkout" ELSE "h_pull")
    /\ UNCHANGED <<world, cache, dst, incoming, authDir, bundleDir, lock, err, cacheID,
                   bundle, authOpts, argss, ref, info, cachePath, verified>>

\* initClone: hg init and the repository's hgrc naming the remote.
HgInitClone ==
    /\ pc = "h_init"
    /\ LET args == <<"init">>
           log == Append(cmds, Cmd(args, "incoming"))
           flog == Append(cmds, CmdFailed(args, "incoming"))
       IN \/ ReturnErr(HgErr("Cloning hg repository: ", <<"Hg ">> \o args), TRUE, TRUE, flog)
          \/ ReturnErr(HgErr("Cloning hg repository: ", <<"Writing .hg/hgrc">>), TRUE, TRUE, log)
          \/ /\ incoming' = Some([The(incoming) EXCEPT
                                    !.config = @ \cup {<<"paths.default">> \o opts.URL}])
             /\ cmds' = log
             /\ Goto("h_pull")
             /\ UNCHANGED <<world, cache, dst, authDir, bundleDir, lock, err, cacheID,
                            bundle, authOpts, argss, ref, info, cachePath, verified, faulted>>

\* syncClone: hg pull, run in the staging directory.
\* HgSyncClone with a fault: after a cache hit the pull is run in the
\* cached directory.
HgSyncClone_InCache ==
    /\ pc = "h_pull"
    /\ LET args == <<"pull">>
           where == IF cachePath # None THEN "cache" ELSE "incoming"
           log == Append(cmds, Cmd(args, where))
           flog == Append(cmds, CmdFailed(args, where))
           what == IF cachePath # None THEN "Syncing hg repository: "
                   ELSE "Cloning hg repository: "
           pulled == [The(incoming) EXCEPT !.store = @ \cup remote,
                                           !.refs = @ \cup remote]
       IN \/ ReturnErr(HgErr(what, <<"Hg ">> \o args), TRUE, TRUE, flog)
          \/ /\ incoming' = Some(pulled)
             /\ cache' = IF cachePath # None
                         THEN CacheSave(cacheImpl, cache, "hg", cacheID, pulled)
                         ELSE cache
             /\ cmds' = log
             /\ Goto("h_Save")
             /\ UNCHANGED <<world, dst, authDir, bundleDir, lock, err, cacheID,
                            bundle, authOpts, argss, ref, info, cachePath, verified, faulted>>

HgSyncClone ==
    /\ pc = "h_pull"
    /\ LET args == <<"pull">>
           log == Append(cmds, Cmd(args, "incoming"))
           flog == Append(cmds, CmdFailed(args, "incoming"))
           what == IF cachePath # None THEN "Syncing hg repository: "
                   ELSE "Cloning hg repository: "
       IN \/ ReturnErr(HgErr(what, <<"Hg ">> \o args), TRUE, TRUE, flog)
          \/ /\ incoming' = Some([The(incoming) EXCEPT !.store = @ \cup remote,
                                                        !.refs = @ \cup remote])
             /\ cmds' = log
             /\ Goto("h_Save")
             /\ UNCHANGED <<world, cache, dst, authDir, bundleDir, lock, err, cacheID,
                            bundle, authOpts, argss, ref, info, cachePath, verified, faulted>>

\* HgCacheSave with a fault: a fresh clone is not saved; only the staging
\* copy that was taken from the cache and pulled into is written back.
HgCacheSave_OnlyAfterPull ==
    /\ pc = "h_Save"
    /\ \/ ReturnErr(HgErr("Saving hg repository to cache: ", <<"cache Save">>),
                    TRUE, TRUE, cmds)
       \/ /\ cache' = IF cachePath = None THEN cache
                      ELSE CacheSave(cacheImpl, cache, "hg", cacheID, The(incoming))
          /\ Goto("h_checkout")
          /\ UNCHANGED <<world, dst, incoming, authDir, bundleDir, cmds, lock, err,
                         cacheID, bundle, authOpts, argss, ref, info, cachePath, verified,
                         faulted>>

\* HgCacheSave with a fault: only a fresh clone is saved; the staging copy that
\* was taken from the cache and pulled into is not written back.
HgCacheSave_OnlyFreshClone ==
    /\ pc = "h_Save"
    /\ \/ ReturnErr(HgErr("Saving hg repository to cache: ", <<"cache Save">>),
                    TRUE, TRUE, cmds)
       \/ /\ cache' = IF cachePath # None THEN cache
                      ELSE CacheSave(cacheImpl, cache, "hg", cacheID, The(incoming))
          /\ Goto("h_checkout")
          /\ UNCHANGED <<world, dst, incoming, authDir, bundleDir, cmds, lock, err,
                         cacheID, bundle, authOpts, argss, ref, info, cachePath, verified,
                         faulted>>

\* Save of the staging repository after a clone or a pull.
HgCacheSave ==
    /\ pc = "h_Save"
    /\ \/ ReturnErr(HgErr("Saving hg repository to cache: ", <<"cache Save">>),
                    TRUE, TRUE, cmds)
       \/ /\ cache' = CacheSave(cacheImpl, cache, "hg", cacheID, The(incoming))
          /\ Goto("h_checkout")
          /\ UNCHANGED <<world, dst, incoming, authDir, bundleDir, cmds, lock, err,
                         cacheID, bundle, authOpts, argss, ref, info, cachePath, verified,
                         faulted>>

HgCheckout ==
    /\ pc = "h_checkout"
    /\ LET args == <<"checkout">> \o opts.Ref
           log == Append(cmds, Cmd(args, "incoming"))
           flog == Append(cmds, CmdFailed(args, "incoming"))
           rev == HgRevOf(The(incoming), opts.Ref)
       IN IF rev = 0
          THEN ReturnErr(HgErr("Checking out hg repository: ", <<"Hg ">> \o args),
                         TRUE, FALSE, flog)
          ELSE \/ ReturnErr(HgErr("Checking out hg repository: ", <<"Hg ">> \o args),
                            TRUE, TRUE, flog)
               \/ /\ incoming' = Some([The(incoming) EXCEPT !.wt = rev])
                  /\ cmds' = log
                  /\ Goto("h_logNode")
                  /\ UNCHANGED <<world, cache, dst, authDir, bundleDir, lock, err, cacheID,
                                 bundle, authOpts, argss, ref, info, cachePath, verified,
                                 faulted>>

\* log -r . -T {node}
HgLogNode ==
    /\ pc = "h_logNode"
    /\ LET args == <<"log", "-r", ".", "-T", "{node}">>
           log == Append(cmds, Cmd(args, "incoming"))
           flog == Append(cmds, CmdFailed(args, "incoming"))
       IN \/ ReturnErr(HgErr("Checking out hg repository: ", <<"Hg ">> \o args),
                       TRUE, TRUE, flog)
          \/ /\ info' = [info EXCEPT !.SHA = TrimSpace(Node(The(incoming).wt))]
             /\ cmds' = log
             /\ Goto("h_logDesc")
             /\ UNCHANGED <<world, cache, dst, incoming, authDir, bundleDir, lock, err,
                            cacheID, bundle, authOpts, argss, ref, cachePath, verified,
                            faulted>>

\* log -l 1 -T {desc|firstline|strip} -r SHA, and Sync filling hgLockConf.
HgLogDesc ==
    /\ pc = "h_logDesc"
    /\ LET args == <<"log", "-l", "1", "-T", "{desc|firstline|strip}", "-r">> \o info.SHA
           log == Append(cmds, Cmd(args, "incoming"))
           flog == Append(cmds, CmdFailed(args, "incoming"))
           title == TrimSpace(FirstLine(Message(The(incoming).wt)))
       IN \/ ReturnErr(HgErr("Checking out hg repository: ", <<"Hg ">> \o args),
                       TRUE, TRUE, flog)
          \/ /\ info' = [info EXCEPT !.Title = title]
             /\ lock' = [SHA |-> info.SHA, Tags |-> <<>>,
                         Title |-> singleLineChangeSetTitle(title)]
             /\ cmds' = log
             /\ Goto("h_RemoveAll")
             /\ UNCHANGED <<world, cache, dst, incoming, authDir, bundleDir, err, cacheID,
                            bundle, authOpts, argss, ref, cachePath, verified, faulted>>

HgRemoveAll == RemoveAllDst("h_RemoveAll", "h_Rename", TRUE)
HgRename == RenameIncoming("h_Rename", TRUE)

(***************************************************************************)
(* The specification: a destination with earlier content, an empty cache   *)
(* root, the cache implementation the syncs are constructed with (the      *)
(* no-op cache or a real one), and up to MaxSyncs syncs of any source.     *)
(***************************************************************************)
Init ==
    /\ remote = {1}
    /\ cache = {}
    /\ dst = Some(PreExisting)
    /\ nsync = 0
    /\ opts = GitDefaults
    /\ cacheImpl \in {"NoCache", "Cache"}
    /\ pc = "idle"
    /\ incoming = None /\ authDir = None /\ bundleDir = None
    /\ cmds = <<>> /\ lock = NoLock /\ err = <<>>
    /\ cacheID = <<>> /\ bundle = <<>> /\ authOpts = NoAuth /\ argss = <<>>
    /\ ref = <<>> /\ info = NoInfo /\ cachePath = None /\ verified = <<>>
    /\ dstBefore = Some(PreExisting) /\ cacheBefore = {} /\ faulted = FALSE

\* The steps of a running sync.
SyncSteps ==
    \/ GitSyncNewTempDir
    \/ GitCacheProbe
    \/ GitRetrieve
    \/ GitGetAuthOpts
    \/ GitNewAuthDir
    \/ GitStageAuth
    \/ GitRunMultiple
    \/ GitResolveRef
    \/ GitVerify
    \/ GitCheckout
    \/ GitSubmodules
    \/ GitRevParse
    \/ GitDescribe
    \/ GitLog
    \/ GitBundleTempDir
    \/ GitForEachRef
    \/ GitBundleCreate
    \/ GitCacheSave
    \/ GitRemoveAll
    \/ GitRename
    \/ HgSyncNewTempDir
    \/ HgSetupAuthOpts
    \/ HgNewAuthDir
    \/ HgStageAuth
    \/ HgCacheProbe
    \/ HgCopyFrom
    \/ HgCloneHasTargetRef
    \/ HgInitClone
    \/ HgSyncClone
    \/ HgCacheSave
    \/ HgCheckout
    \/ HgLogNode
    \/ HgLogDesc
    \/ HgRemoveAll
    \/ HgRename

Next ==
    \/ StartSync(Sources)
    \/ RemoteChange
    \/ SyncSteps

Spec == Init /\ [][Next]_vars

(***************************************************************************)
(* Vocabulary of the properties.                                           *)
(***************************************************************************)
Returned == pc = "done"
Failed == pc = "done" /\ err # <<>>
Succeeded == pc = "done" /\ err = <<>>

Ran(word) == \E i \in 1..Len(cmds) : word \in Range(cmds[i].args)
TimesRan(word) == Cardinality({i \in 1..Len(cmds) : word \in Range(cmds[i].args)})

\* The removal of the old destination has been executed in this sync.
RemovalDone == pc \in {"g_Rename", "h_Rename"} \/ dst # dstBefore

Contains(s, sub) == \E i \in 1..(Len(s) - Len(sub) + 1) : SubSeq(s, i, i + Len(sub) - 1) = sub

SecretNames == {"basic", "ssh", "sshnl", "bad"}
SecretValues == UNION {{SecretData(n)[f] : f \in DOMAIN SecretData(n)} : n \in SecretNames}

\* A directory holds a secret value or an encoding of one.
HoldsSecret(dir) == \E entry \in dir.config, v \in SecretValues : Contains(entry, v)

\* C1: whenever Sync returns an error, the destination directory holds
\* exactly the content it held before the call.
C1_DstUntouchedOnError == Failed => dst = dstBefore

\* C2: in every state of a sync the destination is either fully the old
\* content or fully the newly fetched content, never absent, empty or mixed.
C2_DstOldOrNew ==
    \/ dst = dstBefore
    \/ /\ Succeeded
       /\ dst # None
       /\ The(dst).wt # 0 /\ ~The(dst).damaged /\ ~The(dst).pre

\* Every step that precedes the replacement of the destination has succeeded.
StepsDone ==
    /\ incoming # None
    /\ The(incoming).wt # 0
    /\ lock.SHA = Node(The(incoming).wt)
    /\ IF opts.backend = "git"
       THEN /\ Ran("fetch")
            /\ ref # <<>>
            /\ opts.Verification => verified = <<[ref |-> ref, ok |-> TRUE]>>
            /\ cacheImpl = "Cache" =>
                 /\ CacheHas(cacheImpl, cache, gitCacheType, cacheID)
                 /\ CacheEntry(cache, gitCacheType, cacheID).store = The(incoming).refs
       ELSE /\ cachePath # None \/ (Ran("init") /\ Ran("pull"))
            /\ (cacheImpl = "Cache" /\ Ran("pull")) =>
                 /\ CacheHas(cacheImpl, cache, "hg", cacheID)
                 /\ CacheEntry(cache, "hg", cacheID).store = The(incoming).store

\* C3: the old destination is removed and the staging directory renamed only
\* after every earlier step of the sync has succeeded, and once the removal
\* has been executed nothing runs but the rename and the return.
C3_ReplaceOnlyAfterAllSteps ==
    [][ /\ dst' # dst => StepsDone
        /\ (RemovalDone /\ pc # "done") =>
              /\ cmds' = cmds /\ cache' = cache /\ verified' = verified
              /\ lock' = lock /\ pc' = "done" ]_vars

C3_Witness ==
    /\ Succeeded /\ dst # dstBefore /\ cacheImpl = "Cache"
    /\ opts.backend = "git" /\ opts.Verification

\* C4: git with a verification configured: checkout and submodule update run
\* only after Verify was called with the resolved ref and accepted it; when
\* Verify rejects, fetch returns that error, neither command is ever run and
\* the destination is not replaced.
C4_VerifyBeforeCheckout ==
    (opts.backend = "git" /\ opts.Verification) =>
        /\ Len(verified) <= 1
        /\ \A i \in 1..Len(verified) : verified[i].ref = ref /\ ref # <<>>
        /\ (Ran("checkout") \/ Ran("submodule")) =>
              verified = <<[ref |-> ref, ok |-> TRUE]>>
        /\ (verified # <<>> /\ ~verified[1].ok) =>
              /\ Failed
              /\ err = GitErr(<<"Verification failed">>)
              /\ ~Ran("checkout") /\ ~Ran("submodule")
              /\ dst = dstBefore

C4_Witness ==
    /\ opts.backend = "git" /\ opts.Verification
    /\ verified # <<>> /\ ~verified[1].ok
    /\ Ran("fetch")

\* C5: after a sync has returned, no secret value or encoding of one is
\* stored outside the auth directory, and the auth directory no longer
\* exists; no secret is in the destination or in a cache entry.
C5_NoSecretOutlivesSync ==
    Returned =>
        /\ authDir = None
        /\ dst # None => ~HoldsSecret(The(dst))
        /\ \A e \in cache : ~HoldsSecret(e.dir)

\* C6: every temporary directory created during a Sync call no longer
\* exists when Sync returns, on every exit path.
C6_TempDirsRemoved ==
    Returned => incoming = None /\ authDir = None /\ bundleDir = None

(***************************************************************************)
(* The cache claims.                                                       *)
(***************************************************************************)
RevisionIDs == {Node(r) : r \in Revs} \cup {ShortID(r) : r \in Revs}
               \cup {Abbrev(r) : r \in Revs}

\* The hg cache entry of the URL as it was when this sync was called.
HgEntryBefore == CacheEntry(cacheBefore, "hg", HgCacheID(opts))

\* The lock record of an hg sync that ends at revision r.
HgLockOf(r) == [SHA |-> Node(r), Tags |-> <<>>,
                Title |-> singleLineChangeSetTitle(FirstLine(Message(r)))]

\* The lock record of a git sync that ends at revision r of a repository
\* whose tags are the revisions tagged.
GitLockOf(r, tagged) ==
    [SHA |-> Node(r),
     Tags |-> IF r \in tagged THEN <<<<"v", ToString(r)>>>> ELSE <<>>,
     Title |-> singleLineCommitTitle(Message(r))]

\* An hg sync with a revision id as ref, called with a real cache whose
\* entry for the URL holds that revision, an earlier successful sync having
\* left the destination at that revision.
C7_Case ==
    /\ opts.backend = "hg" /\ cacheImpl = "Cache"
    /\ pc \notin {"idle", "Sync", "h_setup", "h_authDir", "h_stage"}
    /\ opts.Ref \in RevisionIDs
    /\ CacheHas(cacheImpl, cacheBefore, "hg", HgCacheID(opts))
    /\ HgRevOf(HgEntryBefore, opts.Ref) # 0
    /\ dstBefore # None
    /\ The(dstBefore).wt = HgRevOf(HgEntryBefore, opts.Ref)
    /\ (<<"paths.default">> \o opts.URL) \in The(dstBefore).config

\* C7: hg resync with a concrete revision id the cached repository holds:
\* the command sequence has neither init nor pull, and the sync succeeds
\* with the destination content and lock record of the first sync.
C7_ResyncFromCacheOnly ==
    (C7_Case /\ ~faulted) =>
        /\ ~Ran("init") /\ ~Ran("pull")
        /\ Returned =>
              /\ err = <<>>
              /\ dst # None /\ The(dst).wt = The(dstBefore).wt
              /\ lock = HgLockOf(The(dstBefore).wt)

\* An hg sync called with a real cache whose entry for the URL does not
\* hold the ref.
C8_Case ==
    /\ opts.backend = "hg" /\ cacheImpl = "Cache"
    /\ pc \notin {"idle", "Sync", "h_setup", "h_authDir", "h_stage"}
    /\ CacheHas(cacheImpl, cacheBefore, "hg", HgCacheID(opts))
    /\ HgRevOf(HgEntryBefore, opts.Ref) = 0

\* C8: hg sync against a populated cache entry lacking the ref: exactly one
\* pull and no init, the pulled staging repository is saved back under the
\* same (type, id) key, and the destination ends at the new revision.
C8_CachePlusPull ==
    C8_Case =>
        /\ ~Ran("init") /\ TimesRan("pull") <= 1
        /\ Succeeded =>
              /\ TimesRan("pull") = 1
              /\ cachePath = Some(HgCacheID(opts))
              /\ CacheHas(cacheImpl, cache, "hg", HgCacheID(opts))
              /\ CacheEntry(cache, "hg", HgCacheID(opts)) =
                    [The(dst) EXCEPT !.wt = HgEntryBefore.wt]
              /\ CacheEntry(cache, "hg", HgCacheID(opts)).store =
                    HgEntryBefore.store \cup remote
              /\ Cardinality({e \in cache : e.type = "hg"}) =
                    Cardinality({e \in cacheBefore : e.type = "hg"})
              /\ The(dst).wt # 0 /\ The(dst).wt \notin HgEntryBefore.store
              /\ opts.Ref \in {Node(The(dst).wt), ShortID(The(dst).wt), Abbrev(The(dst).wt)}
              /\ lock = HgLockOf(The(dst).wt)

C8_Witness == C8_Case /\ Succeeded

\* The revision a sync of o ends at when it fetches from the remote alone
\* into an empty staging directory; 0 when the ref names no revision there.
FreshRev(o, rem) ==
    LET fresh == [EmptyDir EXCEPT !.store = rem, !.refs = rem]
    IN IF o.backend = "hg" THEN HgRevOf(fresh, o.Ref)
       ELSE IF Len(o.Ref) > 0 THEN GitRevOf(fresh, ExplicitRef(o.Ref))
       ELSE IF o.RefSelection # None
            THEN GitRevOf(fresh, HighestConstrainedVersion(rem, The(o.RefSelection)))
       ELSE 0

LockOf(o, r, rem) == IF o.backend = "hg" THEN HgLockOf(r) ELSE GitLockOf(r, rem)

\* The sync has reached the repository: credentials are staged and a
\* clone, fetch or cache copy has been attempted.
ReachedRepository == Ran("init") \/ cachePath # None

\* C9: a sync with a real cache in any state left by earlier syncs has the
\* outcome of the sync with the no-op cache, which fetches from the remote
\* alone: same success or failure, same lock record, same destination content.
C9_CacheDoesNotChangeOutcome ==
    (Returned /\ ~faulted /\ ReachedRepository) =>
        IF FreshRev(opts, remote) = 0
        THEN err # <<>> /\ dst = dstBefore
        ELSE /\ err = <<>>
             /\ lock = LockOf(opts, FreshRev(opts, remote), remote)
             /\ dst # None /\ The(dst).wt = FreshRev(opts, remote)

\* The cache id a sync of descriptor d uses.
CacheIDOf(d) == IF d.backend = "git" THEN GitCacheID(d) ELSE HgCacheID(d)

\* The descriptor that shares nothing with d but its backend and its URL.
Canonical(d) ==
    [(IF d.backend = "git" THEN GitDefaults ELSE HgDefaults) EXCEPT !.URL = d.URL]

\* Every descriptor gets the cache id of the canonical descriptor of its URL.
IDsAgree == \A d \in Descriptors : CacheIDOf(d) = CacheIDOf(Canonical(d))

RecognizedFields == {"ssh-privatekey", "ssh-knownhosts", "username", "password"}

\* The fields of the secret the source refers to; none without a secret.
SecretFields == IF opts.SecretRef = None THEN {}
                ELSE DOMAIN SecretData(The(opts.SecretRef))

UserPassOverNonHTTPS ==
    /\ pc \notin {"idle"}
    /\ {"username", "password"} \subseteq SecretFields
    /\ SecretFields \subseteq RecognizedFields
    /\ Len(opts.URL) > 0
    /\ ~HasPrefix(opts.URL, <<"https://">>)

\* C11: username and password over a URL that is not https: the sync fails
\* with 'Username/password authentication is only supported for https
\* remotes', no external command is run, and the destination is untouched.
C11_UserPassNeedsHTTPS ==
    UserPassOverNonHTTPS =>
        /\ cmds = <<>>
        /\ dst = dstBefore /\ cache = cacheBefore
        /\ Returned => err # <<>>
        /\ (Returned /\ ~faulted) =>
              err[Len(err)] =
                 "Username/password authentication is only supported for https remotes"

C11_Witness ==
    UserPassOverNonHTTPS /\ Returned /\ ~faulted /\ opts.backend = "git"

NeitherRefNorSelection ==
    /\ opts.backend = "git" /\ pc \notin {"idle"}
    /\ Len(opts.URL) > 0 /\ SecretFields \subseteq RecognizedFields
    /\ Len(opts.Ref) = 0 /\ opts.RefSelection = None

\* C12: git sync with an empty ref and no ref selection: it fails with
\* 'Expected either ref or ref selection to be specified', never runs
\* checkout, and leaves the destination untouched.
C12_NeitherRefNorSelectionFails ==
    NeitherRefNorSelection =>
        /\ ref = <<>>
        /\ ~Ran("checkout")
        /\ dst = dstBefore
        /\ Returned => err # <<>>
        /\ (Returned /\ ~faulted) =>
              err = GitErr(<<"Expected either ref or ref selection to be specified">>)

C12_Witness == NeitherRefNorSelection /\ Returned /\ ~faulted /\ Ran("fetch")

\* C13: a descriptor that sets both an explicit ref and a ref selection
\* makes ref resolution fail: no ref is resolved and the sync returns an error.
C13_BothRefAndSelectionFail ==
    (opts.backend = "git" /\ Len(opts.Ref) > 0 /\ opts.RefSelection # None) =>
        /\ ref = <<>>
        /\ ~Ran("checkout")
        /\ Returned => err # <<>>

HasUnknownField == SecretFields \ RecognizedFields # {}

\* C14: a secret with a field that is not recognized: credential staging
\* fails with an error naming an unrecognized field and the secret, in every
\* order of the fields; no auth file is written and no command is run.
C14_UnknownSecretFieldRejected ==
    (HasUnknownField /\ pc # "idle" /\ Len(opts.URL) > 0) =>
        /\ cmds = <<>>
        /\ authDir = None
        /\ authOpts = NoAuth
        /\ dst = dstBefore
        /\ Returned => err # <<>>
        /\ (Returned /\ ~faulted) =>
              /\ "Unknown secret field" \in Range(err)
              /\ \E f \in SecretFields \ RecognizedFields : f \in Range(err)
              /\ The(opts.SecretRef) \in Range(err)

C14_Witness == HasUnknownField /\ Returned /\ ~faulted /\ Len(opts.URL) > 0

\* C15: a private key that does not end in a newline is written to the
\* private-key file of the auth directory as the key followed by exactly one
\* newline.
C15_PrivateKeyGetsNewline ==
    \A files \in authDir : \A f \in files :
        (f.name = "private-key" /\ authOpts.PrivateKey # None
         /\ The(authOpts.PrivateKey)[Len(The(authOpts.PrivateKey))] # "\n") =>
            f.data = The(authOpts.PrivateKey) \o <<"\n">>

(***************************************************************************)
(* The lock record, command failures and the order of the cache save.      *)
(***************************************************************************)
\* C17: whenever Sync returns an error, the lock record it returns is the
\* empty record: no resolved identifier, no labels, no summary.
C17_EmptyLockOnError == Failed => lock = NoLock

HasNewline(s) == \E i \in 1..Len(s) : s[i] = "\n"

\* C18: the summary of the lock record written by a successful sync is the
\* message of the revision placed in the destination when that message is a
\* single line, and its first line followed by "..." when it spans several
\* lines; it never contains a newline.
C18_SummaryIsMarkedFirstLine ==
    (Succeeded /\ dst # None) =>
        LET msg == Message(The(dst).wt)
        IN /\ lock.Title = IF HasNewline(msg) THEN FirstLine(msg) \o <<"...">> ELSE msg
           /\ ~HasNewline(lock.Title)

\* C19: a command that exited with a failure is the last command of its
\* sync: Sync has returned an error that carries the command, and the
\* destination is as it was.
C19_CommandFailureAborts ==
    \A i \in 1..Len(cmds) :
        cmds[i].failed =>
            /\ i = Len(cmds)
            /\ Failed
            /\ Contains(err, cmds[i].args)
            /\ dst = dstBefore

CheckedOut ==
    \E i \in 1..Len(cmds) :
        /\ ~cmds[i].failed /\ cmds[i].dir = "incoming"
        /\ Head(cmds[i].args) = "checkout"

CheckoutFailed ==
    \E i \in 1..Len(cmds) : cmds[i].failed /\ Head(cmds[i].args) = "checkout"

\* C20: the cache is written by a sync only after its checkout in the
\* staging directory has succeeded; a sync whose checkout fails leaves the
\* cache as it found it.
C20_SaveOnlyAfterCheckout ==
    /\ (pc # "idle" /\ cache # cacheBefore) => CheckedOut
    /\ CheckoutFailed => cache = cacheBefore

(***************************************************************************)
(* Concurrent syncs against one cache root.  The sync of the model runs    *)
(* while another Sync call, of another source, saves its own cache entry   *)
(* at any point between two steps.                                         *)
(***************************************************************************)
CacheTypeOf(o) == IF o.backend = "git" THEN gitCacheType ELSE "hg"

\* What a sync of source o saves: the bundle of the fetched refs (git), the
\* clone before its checkout (hg).
SavedBy(o) ==
    IF o.backend = "git" THEN [EmptyDir EXCEPT !.store = remote]
    ELSE [EmptyDir EXCEPT !.store = remote, !.refs = remote,
                          !.config = {<<"paths.default">> \o o.URL}]

\* The places of this sync where a save of the other matters: just before a
\* step that reads or writes the cache root, and after the last such step.
\* Between two of them the save commutes with the steps of this sync.
PeerSavePoints ==
    {"g_Has", "g_RunMultiple", "g_checkout", "g_Save", "g_RemoveAll",
     "h_Has", "h_CopyFrom", "h_hasRef", "h_Save", "h_checkout"}

\* cache.Save of a concurrent sync of source o.
PeerSaveOf(o) ==
    /\ pc \in PeerSavePoints
    /\ cacheImpl = "Cache"
    /\ o # opts /\ Len(o.URL) > 0
    /\ cache' = CacheSave(cacheImpl, cache, CacheTypeOf(o), CacheIDOf(o), SavedBy(o))
    /\ cache' # cache
    /\ UNCHANGED <<remote, dst, nsync, opts, cacheImpl, pc, incoming, authDir,
                   bundleDir, cmds, lock, err, cacheID, bundle, authOpts, argss,
                   ref, info, cachePath, verified, dstBefore, cacheBefore, faulted>>

\* The sources synced side by side: two refs of one git URL, two refs of
\* one hg URL, and an hg source of another URL.
ConcSources ==
    {GitDefaults,
     With(GitDefaults, "Ref", Node(1)),
     HgDefaults,
     With(HgDefaults, "Ref", ShortID(1)),
     With(With(HgDefaults, "SecretRef", Some("ssh")), "URL", SshURL)}

PeerSave == \E o \in ConcSources : PeerSaveOf(o)

\* The remote repository does not change while the syncs run.
ConcNext ==
    \/ StartSync(ConcSources)
    \/ SyncSteps
    \/ PeerSave

ConcSpec == Init /\ [][ConcNext]_vars

\* The entries of cache c a sync of source o probes, copies from and saves.
EntriesOf(c, o) == {e \in c : e.type = CacheTypeOf(o) /\ e.id = CacheIDOf(o)}

SameRepository(o, q) == o.backend = q.backend /\ o.URL = q.URL

FetchIdx == {i \in 1..Len(cmds) : Head(cmds[i].args) = "fetch"}
UnbundleIdx == {i \in 1..Len(cmds) : HasPrefix(cmds[i].args, <<"bundle", "unbundle">>)}

\* The git sync has come to its checkout: it is about to run it or has run it.
ReachedCheckout == opts.backend = "git" /\ (pc = "g_checkout" \/ Ran("checkout"))

HgCacheHit == opts.backend = "hg" /\ cachePath # None /\ pc # "h_CopyFrom"

HgAtCheckout == pc = "h_checkout" \/ Ran("checkout")

PulledInStaging ==
    \E i \in 1..Len(cmds) :
        cmds[i].args = <<"pull">> /\ ~cmds[i].failed /\ cmds[i].dir = "incoming"

IdLookupFailed ==
    \E i \in 1..Len(cmds) : Head(cmds[i].args) = "id" /\ cmds[i].failed

\* C22: hg sync with a cache hit.  It comes to its checkout without a pull
\* only with a ref that is a revision id the cached repository holds; with
\* a symbolic name, an id the cache lacks or a failed id lookup it comes to
\* the checkout only after a successful pull in the staging copy, and at
\* the checkout the entry under the same key is that staging copy.
C22_PullSkippedOnlyForHeldRevisionID ==
    (HgCacheHit /\ HgAtCheckout) =>
        /\ ~Ran("pull") =>
              /\ opts.Ref \in RevisionIDs
              /\ HgRevOf(HgEntryBefore, opts.Ref) # 0
              /\ ~IdLookupFailed
              /\ cache = cacheBefore
        /\ (\/ opts.Ref \notin RevisionIDs
            \/ HgRevOf(HgEntryBefore, opts.Ref) = 0
            \/ IdLookupFailed) =>
              /\ PulledInStaging
              /\ ~Ran("init")
              /\ CacheHas(cacheImpl, cache, "hg", The(cachePath))
              /\ Cardinality({e \in cache : e.type = "hg" /\ e.id = The(cachePath)}) = 1
              /\ CacheEntry(cache, "hg", The(cachePath)).store =
                    HgEntryBefore.store \cup remote
              /\ pc = "h_checkout" =>
                    CacheEntry(cache, "hg", The(cachePath)) = The(incoming)

C22_Witness ==
    /\ HgCacheHit /\ pc = "h_checkout" /\ ~faulted
    /\ opts.Ref \notin RevisionIDs /\ PulledInStaging

(***************************************************************************)
(* The names fetched and checked out for an explicit ref (git).            *)
(***************************************************************************)
GitExplicitRef == opts.backend = "git" /\ Len(opts.Ref) > 0

RemoteTracking == Head(opts.Ref) = "origin/"

DepthArgs == IF opts.Depth > 0 THEN <<"--depth", ToString(opts.Depth)>> ELSE <<>>

\* C23: git sync with an explicit ref.  With a ref that starts with
\* "origin/" every fetch command names exactly the ref without the prefix
\* and every checkout command and the resolved ref are that same name;
\* otherwise the fetch command names no branch and the checkout target and
\* the resolved ref are the ref itself.
C23_FetchAndCheckoutSameName ==
    GitExplicitRef =>
        LET name == IF RemoteTracking THEN Tail(opts.Ref) ELSE opts.Ref
            fetched == IF RemoteTracking THEN Tail(opts.Ref) ELSE <<>>
        IN /\ \A i \in 1..Len(cmds) :
                 /\ Head(cmds[i].args) = "fetch" =>
                       cmds[i].args = <<"fetch", "origin">> \o fetched \o DepthArgs
                 /\ "checkout" \in Range(cmds[i].args) =>
                       cmds[i].args =
                          <<"-c", "advice.detachedHead=false", "checkout">> \o name
           /\ ref # <<>> => ref = name
           /\ ReachedCheckout => ref = name /\ FetchIdx # {}

C23_Witness ==
    GitExplicitRef /\ RemoteTracking /\ Succeeded /\ Ran("fetch") /\ Ran("checkout")

(***************************************************************************)
(* A cached bundle that cannot be applied.  Between two syncs something    *)
(* outside them damages the bundle file of a git cache entry (truncated,   *)
(* removed); no sync runs while it does.                                   *)
(***************************************************************************)
CacheCorrupt ==
    /\ pc \in {"idle", "done"}
    /\ \E e \in cache :
          /\ e.type = gitCacheType /\ ~e.dir.damaged
          /\ cache' = (cache \ {e}) \cup {[e EXCEPT !.dir.damaged = TRUE]}
    /\ UNCHANGED <<remote, dst, nsync, opts, cacheImpl, pc, incoming, authDir,
                   bundleDir, cmds, lock, err, cacheID, bundle, authOpts, argss,
                   ref, info, cachePath, verified, dstBefore, cacheBefore, faulted>>

\* The sources synced around the damage: two refs of one git URL and two
\* refs of one hg URL.
CorruptSources ==
    {GitDefaults,
     With(GitDefaults, "Ref", Node(1)),
     HgDefaults,
     With(HgDefaults, "Ref", ShortID(1))}

CorruptNext ==
    \/ StartSync(CorruptSources)
    \/ RemoteChange
    \/ SyncSteps
    \/ CacheCorrupt

CorruptSpec == Init /\ [][CorruptNext]_vars

\* The bundle of the git cache entry of this sync's URL could not be
\* applied when the sync was called.
BadBundle ==
    /\ opts.backend = "git" /\ cacheImpl = "Cache"
    /\ pc \notin {"idle", "Sync", "g_Has"}
    /\ \E e \in cacheBefore :
          e.type = gitCacheType /\ e.id = GitCacheID(opts) /\ e.dir.damaged

\* C24: git sync whose cache entry holds a bundle that cannot be applied:
\* the sync fails with the error of 'bundle unbundle', runs neither fetch
\* nor checkout, leaves the whole cache and the destination as they were;
\* the entry is as damaged after the sync as before it, so the next sync of
\* the URL meets the same entry.
C24_BadBundleFailsEverySync ==
    BadBundle =>
        /\ pc # "done" => bundle = <<gitCacheType>> \o GitCacheID(opts) \o <<"bundle">>
        /\ ~Ran("fetch") /\ ~Ran("checkout")
        /\ pc # "done" => cache = cacheBefore
        /\ \A e \in cacheBefore : e.dir.damaged => e \in cache
        /\ dst = dstBefore
        /\ Returned => err # <<>>
        /\ (Returned /\ ~faulted) =>
              /\ cmds # <<>>
              /\ cmds[Len(cmds)] = CmdFailed(<<"bundle", "unbundle">> \o bundle, "incoming")
              /\ err = GitErr(<<"Git ", "bundle", "unbundle">> \o bundle)

C24_Witness == BadBundle /\ Returned /\ ~faulted /\ UnbundleIdx # {}

(***************************************************************************)
(* What a sync changes in the cache.                                       *)
(***************************************************************************)
\* The entries in which two cache states differ.
CacheDiff(c, d) == (c \ d) \cup (d \ c)

\* C25: a step of a sync changes the cache only as the Save step, and then
\* only entries under the (type, id) key of the sync's own URL; the hg pull
\* and checkout commands are run in the staging copy; an hg sync that took
\* the cache-hit path without a pull returns with the cache as it found it.
C25_CacheChangedOnlyBySave ==
    [][/\ cache' # cache =>
             /\ pc \in {"g_Save", "h_Save"}
             /\ \A e \in CacheDiff(cache, cache') :
                   e.type = CacheTypeOf(opts) /\ e.id = CacheIDOf(opts)
       /\ \A i \in 1..Len(cmds') :
             Head(cmds'[i].args) \in {"pull", "checkout"} => cmds'[i].dir = "incoming"
       /\ (/\ opts'.backend = "hg" /\ cachePath' # None /\ pc' = "done"
           /\ \A i \in 1..Len(cmds') : Head(cmds'[i].args) # "pull") =>
             cache' = cacheBefore']_vars

C25_Witness ==
    /\ opts.backend = "hg" /\ cachePath # None /\ Succeeded /\ ~Ran("pull")
    /\ Ran("checkout") /\ cacheBefore # {} /\ cache = cacheBefore

\* C26: with a real cache, when a sync has returned without error the cache
\* holds exactly one entry under the type of its backend and the id of its
\* URL; after an hg sync the repository of that entry contains the revision
\* now checked out in the destination.
C26_CacheHoldsSyncedRevision ==
    (Succeeded /\ cacheImpl = "Cache") =>
        /\ Cardinality(EntriesOf(cache, opts)) = 1
        /\ CacheHas(cacheImpl, cache, CacheTypeOf(opts), CacheIDOf(opts))
        /\ opts.backend = "hg" =>
              /\ dst # None /\ The(dst).wt # 0
              /\ The(dst).wt \in CacheEntry(cache, "hg", HgCacheID(opts)).store

C26_Witness ==
    /\ Succeeded /\ cacheImpl = "Cache" /\ opts.backend = "hg" /\ nsync = MaxSyncs
    /\ dst # None /\ The(dst).wt \in CacheEntry(cache, "hg", HgCacheID(opts)).store
    /\ cachePath # None
====
